---- MODULE Spec2Model ----
(***************************************************************************)
(* Model of strapi_migrate.py: a sequential script that pages through the  *)
(* published entries of a source API, looks each one up in a destination   *)
(* API by a configurable match field, updates (PUT) or creates (POST) it,  *)
(* and writes a CSV report.  Every HTTP exchange is one step: the server's *)
(* status (and, for the source, the page it serves) is the step's input.   *)
(***************************************************************************)
EXTENDS Integers, Sequences, FiniteSets, TLC

VARIABLES matchField, dry_run, destShape,
          source, dest, destAtStart,
          run, pc, page, entries, idx, report_rows, reportFile, log

vars == <<matchField, dry_run, destShape, source, dest, destAtStart,
          run, pc, page, entries, idx, report_rows, reportFile, log>>

(* ------------------------------ bounds --------------------------------- *)

\* Non-empty pages the source serves before it must answer with an empty one.
MaxPages == 2
\* Records the source holds in total, over all its pages.
MaxRecords == 2
\* Times the script is run, one run after the other, over the same source.
MaxRuns == 2

(* ------------------------------ values --------------------------------- *)

\* A key that is absent from a mapping (dict.get gives None for it).
MISSING == "<missing>"
\* Python None as a document identifier (real identifiers are 1, 2, ...).
None == 0
\* Values `not match_value` is true of: an absent key and the empty string.
Falsy == {MISSING, ""}
MatchFields == {"slug", "agendaFormatName"}
Statuses == {200, 500}

\* Raw source records: `kind` is the shape of the record, "nested" when its
\* fields sit under an "attributes" mapping (empty when every field is
\* missing), "flat" when they sit at the top level next to "id", and
\* "nonMapping" when "attributes" is present but is not a mapping.
Rec(k, s, n, o) ==
    [kind |-> k, slug |-> s, agendaFormatName |-> n, agendaFormatOrder |-> o]

SourceRecords ==
    { Rec("nonMapping", MISSING, MISSING, MISSING),
      Rec("nested", MISSING, MISSING, MISSING),
      Rec("nested", "A", "A", "1"),
      Rec("flat", MISSING, "B", "1"),
      Rec("nested", "", "", "1"),
      Rec("nested", "A", MISSING, "1") }

\* Destination documents: the document identifier and the stored fields.
Doc(d, s, n, o) ==
    [documentId |-> d, slug |-> s, agendaFormatName |-> n, agendaFormatOrder |-> o]

InitialDests == { <<>>, <<Doc(1, "A", "A", "1")>> }

NoFile == [run |-> 0, rows |-> <<>>]

(* ------------------------------ helpers -------------------------------- *)

RECURSIVE Flatten(_)
Flatten(pages) ==
    IF pages = <<>> THEN <<>> ELSE Head(pages) \o Flatten(Tail(pages))

RecordCount(pages) == Len(Flatten(pages))

NonEmptyPages(pages) == Cardinality({p \in DOMAIN pages : pages[p] # <<>>})

\* The source assigns ids in storage order: the n-th record has id n.
WithIds(recs, base) ==
    [i \in DOMAIN recs |->
        [id |-> base + i, kind |-> recs[i].kind, slug |-> recs[i].slug,
         agendaFormatName |-> recs[i].agendaFormatName,
         agendaFormatOrder |-> recs[i].agendaFormatOrder]]

\* The pages the source can serve next, given the ones it has served.
NextPages(served) ==
    LET room == IF NonEmptyPages(served) < MaxPages
                THEN MaxRecords - RecordCount(served) ELSE 0
    IN  UNION { { WithIds(p, RecordCount(served)) : p \in [1..n -> SourceRecords] }
                : n \in 0..room }

\* The body of the response to a GET of page p: what the source served
\* before for that page, else any page it can still serve.
PageBodies(p) ==
    IF p <= Len(source) THEN {source[p]} ELSE NextPages(source)

(* --------------------------- raise_for_status -------------------------- *)

never_raises(status) == FALSE

raises_client_errors_only(status) == status >= 400 /\ status < 500

\* requests.Response.raise_for_status(): raises for 4xx and 5xx.
raise_for_status(status) == status >= 400

ErrorMessage(status) ==
    IF status = 500 THEN "500 Server Error" ELSE "404 Client Error"

(* ----------------------------- request log ----------------------------- *)

Request(m, p, i, t, st, f) ==
    [run |-> run, method |-> m, page |-> p, idx |-> i, target |-> t,
     status |-> st, found |-> f]

(* ----------------------------- fetch_entries --------------------------- *)

stops_when_nothing_kept(data, kept) == kept = <<>>

\* `if not data: break`
is_last_page(data, kept) == data = <<>>

\* `not isinstance(attributes, dict) or not attributes`
invalid_attributes(rec) ==
    \/ rec.kind = "nonMapping"
    \/ /\ rec.kind = "nested"
       /\ rec.slug = MISSING
       /\ rec.agendaFormatName = MISSING
       /\ rec.agendaFormatOrder = MISSING

skips_only_none(match_value) == match_value = MISSING

\* `if not match_value: continue`
skips_match_value(match_value) == match_value \in Falsy

\* attributes with "id" and "match_field" set on it
normalize(rec, mf) ==
    [id |-> rec.id, slug |-> rec.slug, agendaFormatName |-> rec.agendaFormatName,
     agendaFormatOrder |-> rec.agendaFormatOrder, match_field |-> rec[mf]]

\* The loop over one page's records: the entries it appends.
RECURSIVE page_entries(_, _)
page_entries(data, mf) ==
    IF data = <<>> THEN <<>>
    ELSE LET rec == Head(data)
             rest == page_entries(Tail(data), mf)
         IN  IF invalid_attributes(rec) THEN rest
             ELSE IF skips_match_value(rec[mf]) THEN rest
             ELSE <<normalize(rec, mf)>> \o rest

(* ------------------------------- actions ------------------------------- *)

Init ==
    /\ matchField \in MatchFields
    /\ dry_run \in BOOLEAN
    /\ destShape \in {"nested", "flat"}
    /\ source = <<>>
    /\ dest \in InitialDests
    /\ destAtStart = dest
    /\ run = 1
    /\ pc = "fetch"
    /\ page = 1
    /\ entries = <<>>
    /\ idx = 1
    /\ report_rows = <<>>
    /\ reportFile = NoFile
    /\ log = <<>>

\* One iteration of the `while True` of fetch_entries whose GET raises.
FetchPageFails ==
    /\ pc = "fetch"
    /\ \E st \in Statuses :
          /\ raise_for_status(st)
          /\ log' = Append(log, Request("GET_SRC", page, 0, None, st, FALSE))
    /\ pc' = "aborted"
    /\ UNCHANGED <<matchField, dry_run, destShape, source, dest, destAtStart,
                   run, page, entries, idx, report_rows, reportFile>>

\* One iteration of the `while True` of fetch_entries whose GET succeeds.
FetchPage ==
    /\ pc = "fetch"
    /\ \E st \in Statuses, data \in PageBodies(page) :
          /\ ~raise_for_status(st)
          /\ log' = Append(log, Request("GET_SRC", page, 0, None, st, FALSE))
          /\ source' = IF page <= Len(source) THEN source ELSE Append(source, data)
          /\ LET kept == page_entries(data, matchField)
             IN  IF is_last_page(data, kept)
                 THEN /\ pc' = "process"
                      /\ UNCHANGED <<page, entries>>
                 ELSE /\ pc' = "fetch"
                      /\ page' = page + 1
                      /\ entries' = entries \o kept
    /\ UNCHANGED <<matchField, dry_run, destShape, dest, destAtStart,
                   run, idx, report_rows, reportFile>>

(* --------------------------- sanitize_payload -------------------------- *)

\* entry["agendaFormatName"], entry["agendaFormatOrder"]: KeyError when absent
has_payload_fields(entry) ==
    entry.agendaFormatName # MISSING /\ entry.agendaFormatOrder # MISSING

sanitize_payload(entry) ==
    [agendaFormatName |-> entry.agendaFormatName,
     agendaFormatOrder |-> entry.agendaFormatOrder]

(* ----------------------------- destination ----------------------------- *)

\* GET {dest}/api/{collection}?filters[field][$eq]=value: the matching
\* documents in storage order, in the shape the destination answers in:
\* "nested" puts documentId under "attributes", "flat" at the top level.
DestQuery(docs, field, value, shape) ==
    LET hits == SelectSeq(docs, LAMBDA d : d[field] = value)
    IN  [i \in DOMAIN hits |->
            [hasAttributes |-> shape = "nested",
             attrDocumentId |-> IF shape = "nested" THEN hits[i].documentId ELSE None,
             topDocumentId |-> IF shape = "flat" THEN hits[i].documentId ELSE None]]

HasDoc(docs, id) == \E i \in DOMAIN docs : docs[i].documentId = id

\* PUT {collection}/{id} with {"data": payload}: the payload's fields replace
\* the stored ones.
DestPut(docs, id, payload) ==
    [i \in DOMAIN docs |->
        IF docs[i].documentId = id
        THEN Doc(id, docs[i].slug, payload.agendaFormatName, payload.agendaFormatOrder)
        ELSE docs[i]]

\* POST {collection} with {"data": payload}: a new document holding exactly
\* the payload, under a fresh identifier.
DestPost(docs, payload) ==
    Append(docs, Doc(Len(docs) + 1, MISSING, payload.agendaFormatName,
                     payload.agendaFormatOrder))

\* The statuses a PUT can be answered with: Not Found when no document has
\* the identifier in the path.
PutStatuses(docs, id) == IF HasDoc(docs, id) THEN Statuses ELSE {404}

(* -------------------------- find_existing_entry ------------------------ *)

NoEntry == [found |-> FALSE, documentId |-> None]

\* data[0].get("attributes", {}).get("documentId") of the first result
find_existing_entry(data) ==
    IF data # <<>>
    THEN [found |-> TRUE,
          documentId |-> IF data[1].hasAttributes THEN data[1].attrDocumentId
                         ELSE None]
    ELSE NoEntry

(* --------------------------- migrate_collection ------------------------ *)

update_if_doc_id(existing_entry) == existing_entry.documentId # None

\* `if existing_entry:` a non-empty dict is truthy whatever it holds
takes_update_branch(existing_entry) == existing_entry.found

always_calls(dry) == TRUE

\* `if not dry_run:`
issues_call(dry) == ~dry

report_row(value, action, error, dry) ==
    [entry |-> value, action |-> action, error |-> error, dry_run |-> dry]

except_row_keeps_action(value, action, error, dry) ==
    report_row(value, action, error, dry)

\* the row of the `except Exception as e` branch
except_row(value, action, error, dry) ==
    report_row(value, "failed", error, dry)

except_drops_row(rows, row) == rows

\* report_rows.append(...) in the except branch
rows_after_except(rows, row) == Append(rows, row)

Entry == entries[idx]
MatchValue == Entry[matchField]
Lookup(st) == Request("GET_DST", 0, idx, None, st, FALSE)
Existing == find_existing_entry(DestQuery(dest, matchField, MatchValue, destShape))

InLoop == pc = "process" /\ idx <= Len(entries)

\* sanitize_payload raises KeyError: the run ends before any request.
SanitizeFails ==
    /\ InLoop
    /\ ~has_payload_fields(Entry)
    /\ pc' = "aborted"
    /\ UNCHANGED <<matchField, dry_run, destShape, source, dest, destAtStart,
                   run, page, entries, idx, report_rows, reportFile, log>>

\* find_existing_entry raises on the response's status: the run ends.
LookupFails ==
    /\ InLoop
    /\ has_payload_fields(Entry)
    /\ \E st \in Statuses :
          /\ raise_for_status(st)
          /\ log' = Append(log, Lookup(st))
    /\ pc' = "aborted"
    /\ UNCHANGED <<matchField, dry_run, destShape, source, dest, destAtStart,
                   run, page, entries, idx, report_rows, reportFile>>

\* A loop iteration that issues no PUT or POST (dry run).
DryRunEntry ==
    /\ InLoop
    /\ has_payload_fields(Entry)
    /\ ~issues_call(dry_run)
    /\ \E st \in Statuses :
          /\ ~raise_for_status(st)
          /\ log' = Append(log, Request("GET_DST", 0, idx, None, st, Existing.found))
    /\ report_rows' = Append(report_rows,
          report_row(MatchValue,
                     IF takes_update_branch(Existing) THEN "updated" ELSE "created",
                     "", dry_run))
    /\ idx' = idx + 1
    /\ UNCHANGED <<matchField, dry_run, destShape, source, dest, destAtStart,
                   run, pc, page, entries, reportFile>>

\* A loop iteration in the `if existing_entry:` branch: PUT.
UpdateEntry ==
    /\ InLoop
    /\ has_payload_fields(Entry)
    /\ issues_call(dry_run)
    /\ takes_update_branch(Existing)
    /\ \E st \in Statuses, ust \in PutStatuses(dest, Existing.documentId) :
          /\ ~raise_for_status(st)
          /\ log' = log \o
                <<Request("GET_DST", 0, idx, None, st, Existing.found),
                  Request("PUT", 0, idx, Existing.documentId, ust, FALSE)>>
          /\ IF raise_for_status(ust)
             THEN /\ report_rows' = rows_after_except(report_rows,
                        except_row(MatchValue, "updated", ErrorMessage(ust), dry_run))
                  /\ dest' = dest
             ELSE /\ report_rows' = Append(report_rows,
                        report_row(MatchValue, "updated", "", dry_run))
                  /\ dest' = IF ust = 200
                             THEN DestPut(dest, Existing.documentId, sanitize_payload(Entry))
                             ELSE dest
    /\ idx' = idx + 1
    /\ UNCHANGED <<matchField, dry_run, destShape, source, destAtStart,
                   run, pc, page, entries, reportFile>>

\* A loop iteration in the `else:` branch: POST.
CreateEntry ==
    /\ InLoop
    /\ has_payload_fields(Entry)
    /\ issues_call(dry_run)
    /\ ~takes_update_branch(Existing)
    /\ \E st \in Statuses, cst \in Statuses :
          /\ ~raise_for_status(st)
          /\ log' = log \o
                <<Request("GET_DST", 0, idx, None, st, Existing.found),
                  Request("POST", 0, idx, None, cst, FALSE)>>
          /\ IF raise_for_status(cst)
             THEN /\ report_rows' = rows_after_except(report_rows,
                        except_row(MatchValue, "created", ErrorMessage(cst), dry_run))
                  /\ dest' = dest
             ELSE /\ report_rows' = Append(report_rows,
                        report_row(MatchValue, "created", "", dry_run))
                  /\ dest' = IF cst = 200
                             THEN DestPost(dest, sanitize_payload(Entry))
                             ELSE dest
    /\ idx' = idx + 1
    /\ UNCHANGED <<matchField, dry_run, destShape, source, destAtStart,
                   run, pc, page, entries, reportFile>>

\* `with open(REPORT_FILE, "w")`: after the loop, all rows at once.
WriteReport ==
    /\ pc = "process"
    /\ idx > Len(entries)
    /\ reportFile' = [run |-> run, rows |-> report_rows]
    /\ pc' = "done"
    /\ UNCHANGED <<matchField, dry_run, destShape, source, dest, destAtStart,
                   run, page, entries, idx, report_rows, log>>

\* The script is started again, with the same arguments, after a run that
\* completed; source and destination are as that run left them.
Rerun ==
    /\ pc = "done"
    /\ run < MaxRuns
    /\ run' = run + 1
    /\ pc' = "fetch"
    /\ page' = 1
    /\ entries' = <<>>
    /\ idx' = 1
    /\ report_rows' = <<>>
    /\ destAtStart' = dest
    /\ UNCHANGED <<matchField, dry_run, destShape, source, dest, reportFile, log>>

Next ==
    \/ FetchPageFails
    \/ FetchPage
    \/ SanitizeFails
    \/ LookupFails
    \/ DryRunEntry
    \/ UpdateEntry
    \/ CreateEntry
    \/ WriteReport
    \/ Rerun

Spec == Init /\ [][Next]_vars

\* fetch_entries alone, run to its return or to the exception that ends it.
\* The script is sequential and keeps executing, so a step that can be
\* taken is taken.
FetchNext == FetchPageFails \/ FetchPage

FetchSpec == Init /\ [][FetchNext]_vars /\ WF_vars(FetchNext)

(* ------------------------- reading the history ------------------------- *)

Ok(status) == status \in 200..299

ThisRun(k) == log[k].run = run

\* The requests of the current run with the given method, in issue order.
Issued(m) == SelectSeq(log, LAMBDA r : r.run = run /\ r.method = m)

\* How many requests with the given method the current run issued for entry i.
Count(m, i) ==
    Cardinality({k \in DOMAIN log : ThisRun(k) /\ log[k].method = m /\ log[k].idx = i})

\* Whether the destination lookup for entry i of the current run returned a match.
LookupFound(i) ==
    \E k \in DOMAIN log :
        ThisRun(k) /\ log[k].method = "GET_DST" /\ log[k].idx = i /\ log[k].found

Mutating(k) == log[k].method \in {"PUT", "POST"}

\* fetch_entries has returned in the current run.
FetchReturned ==
    \E k \in DOMAIN log :
        /\ ThisRun(k) /\ log[k].method = "GET_SRC" /\ Ok(log[k].status)
        /\ source[log[k].page] = <<>>

Truthy(v) == v \notin {MISSING, ""}

(* -------------------------------- claims ------------------------------- *)

\* C1: after a non-dry run that completed with every request succeeding, a
\* second completed run over the unchanged source finds a destination match
\* for every entry, issues no POST and leaves the number of destination
\* documents unchanged.
C1_SecondRunIdempotent ==
    ( /\ run >= 2
      /\ pc = "done"
      /\ ~dry_run
      /\ \A k \in DOMAIN log : log[k].run = run - 1 => Ok(log[k].status) )
    => /\ \A i \in DOMAIN entries : LookupFound(i)
       /\ \A k \in DOMAIN log : ThisRun(k) => log[k].method # "POST"
       /\ Len(dest) = Len(destAtStart)

\* C2: with dry_run false, each processed entry gets exactly one PUT and no
\* POST when its lookup returned a match, and exactly one POST and no PUT
\* when its lookup returned none.
C2_RequestChosenByLookup ==
    ~dry_run =>
        \A i \in DOMAIN report_rows :
            /\ Count("GET_DST", i) = 1
            /\ IF LookupFound(i)
               THEN Count("PUT", i) = 1 /\ Count("POST", i) = 0
               ELSE Count("POST", i) = 1 /\ Count("PUT", i) = 0

C2_Witness ==
    /\ ~dry_run
    /\ \E i, j \in DOMAIN report_rows :
          /\ LookupFound(i) /\ Count("PUT", i) = 1
          /\ ~LookupFound(j) /\ Count("POST", j) = 1

\* C3: in a dry run no PUT or POST is ever issued and the destination is
\* unchanged, yet every entry whose lookup answered has a row with the
\* prospective action ("updated" on a match, "created" on none) and
\* dry_run recorded as true.
C3_DryRun ==
    dry_run =>
        /\ \A k \in DOMAIN log : ~Mutating(k)
        /\ dest = destAtStart
        /\ Len(report_rows) = Len(SelectSeq(Issued("GET_DST"), LAMBDA r : Ok(r.status)))
        /\ \A i \in DOMAIN report_rows :
              /\ report_rows[i].action = IF LookupFound(i) THEN "updated" ELSE "created"
              /\ report_rows[i].dry_run = TRUE
              /\ report_rows[i].entry = entries[i].match_field

C3_Witness ==
    /\ dry_run
    /\ \E i, j \in DOMAIN report_rows :
          /\ LookupFound(i) /\ report_rows[i].action = "updated"
          /\ ~LookupFound(j) /\ report_rows[j].action = "created"

\* C4 as stated: in every run in which fetch_entries returned and that has
\* ended, the report holds one row per fetched entry.
C4_EveryRunReports ==
    (FetchReturned /\ pc \in {"done", "aborted"})
    => /\ reportFile.run = run
       /\ Len(reportFile.rows) = Len(entries)

\* C4 amended: whenever a run writes the report, the report holds exactly
\* one row per fetched entry, in fetch order, whatever the entries' outcomes.
C4_RowPerEntry ==
    reportFile.run = run =>
        /\ Len(reportFile.rows) = Len(entries)
        /\ \A i \in DOMAIN entries : reportFile.rows[i].entry = entries[i].match_field

C4_Witness ==
    /\ reportFile.run = run
    /\ Len(entries) = 2
    /\ reportFile.rows[1].action = "failed"
    /\ reportFile.rows[2].action # "failed"

\* C5 as stated: a lookup or a create answered with HTTP 500 gives the entry
\* a "failed" row with the error message, and the loop goes on to the next
\* entry.
C5_LookupOrCreateFailure ==
    \A k \in DOMAIN log :
        (ThisRun(k) /\ log[k].method \in {"GET_DST", "POST"} /\ log[k].status = 500)
        => /\ idx > log[k].idx
           /\ log[k].idx \in DOMAIN report_rows
           /\ report_rows[log[k].idx].action = "failed"
           /\ report_rows[log[k].idx].error # ""

\* C5 amended: a create answered with HTTP 500 gives the entry a "failed"
\* row with the error message and the loop goes on to the next entry; a
\* lookup answered with HTTP 500 ends the run with no row for the entry.
C5_CreateFailure ==
    \A k \in DOMAIN log :
        /\ (ThisRun(k) /\ log[k].method = "POST" /\ log[k].status = 500)
           => /\ idx > log[k].idx
              /\ log[k].idx \in DOMAIN report_rows
              /\ report_rows[log[k].idx].action = "failed"
              /\ report_rows[log[k].idx].error # ""
        /\ (ThisRun(k) /\ log[k].method = "GET_DST" /\ log[k].status = 500)
           => /\ pc = "aborted"
              /\ idx = log[k].idx
              /\ Len(report_rows) = log[k].idx - 1

C5_Witness ==
    \E k \in DOMAIN log :
        /\ ThisRun(k) /\ log[k].method = "POST" /\ log[k].status = 500
        /\ report_rows[log[k].idx].action = "failed"
        /\ \E n \in DOMAIN log :
              n > k /\ ThisRun(n) /\ log[n].method = "GET_DST"
              /\ log[n].idx = log[k].idx + 1 /\ Ok(log[n].status)
        /\ Len(report_rows) = log[k].idx + 1

C7_PagesInOrder ==
    LET pages == Issued("GET_SRC")
    IN  /\ \A j \in DOMAIN pages : pages[j].page = j
        /\ \A j \in DOMAIN pages :
              \A q \in 1..(pages[j].page - 1) : source[q] # <<>>
        /\ pc = "process" =>
              /\ pages # <<>>
              /\ source[pages[Len(pages)].page] = <<>>

C7_Pagination == []C7_PagesInOrder /\ <>(pc # "fetch")

C7_Witness ==
    /\ pc = "process"
    /\ Len(source) = 3
    /\ source[1] # <<>>
    /\ page_entries(source[1], matchField) = <<>>
    /\ Len(entries) = 1

\* C8: no entry with a missing or falsy match value is fetched, looked up,
\* sent or reported, and the fetched entries are exactly the records with
\* mapping attributes and a truthy match value of the pages before the
\* first empty one, once each, in page order.
C8_Eligible(rec) == rec.kind # "nonMapping" /\ Truthy(rec[matchField])

C8_OnlyMatchable ==
    LET seen == Flatten(SubSeq(source, 1, page - 1))
        want == SelectSeq(seen, C8_Eligible)
    IN  /\ \A i \in DOMAIN entries :
              Truthy(entries[i].match_field) /\ Truthy(entries[i][matchField])
        /\ \A i \in DOMAIN report_rows : Truthy(report_rows[i].entry)
        /\ \A i \in DOMAIN reportFile.rows : Truthy(reportFile.rows[i].entry)
        /\ \A k \in DOMAIN log :
              (ThisRun(k) /\ log[k].method # "GET_SRC") => log[k].idx \in DOMAIN entries
        /\ Len(entries) = Len(want)
        /\ \A i \in DOMAIN entries : entries[i].id = want[i].id

C8_Witness ==
    /\ pc = "done"
    /\ Len(entries) = 1
    /\ Len(report_rows) = 1
    /\ \E q \in DOMAIN source : Len(source[q]) = 2
          /\ source[q][1].kind # "nonMapping"
          /\ source[q][1][matchField] = ""
          /\ C8_Eligible(source[q][2])

\* C9: a PUT or POST that raises gives the entry its one row with action
\* "failed" and a message, leaves the earlier rows as they were, and the loop
\* goes on with the next entry; a run that ends normally has written the
\* report with all the rows.
C9_UpsertRaised ==
    /\ Len(log') = Len(log) + 2
    /\ log'[Len(log')].method \in {"PUT", "POST"}
    /\ ~Ok(log'[Len(log')].status)

C9_Step ==
    C9_UpsertRaised =>
        /\ Len(report_rows') = Len(report_rows) + 1
        /\ SubSeq(report_rows', 1, Len(report_rows)) = report_rows
        /\ report_rows'[idx].entry = entries[idx].match_field
        /\ report_rows'[idx].action = "failed"
        /\ report_rows'[idx].error # ""
        /\ pc' = "process"
        /\ idx' = idx + 1
        /\ entries' = entries

C9_UpsertErrorCaught ==
    /\ [][C9_Step]_vars
    /\ [](pc = "done" => reportFile = [run |-> run, rows |-> report_rows])

C9_Witness ==
    /\ pc = "done"
    /\ Len(reportFile.rows) = 2
    /\ reportFile.rows[1].action = "failed"
    /\ reportFile.rows[2].action = "updated"
    /\ \E k \in DOMAIN log :
          ThisRun(k) /\ log[k].method = "PUT" /\ log[k].idx = 1 /\ ~Ok(log[k].status)

\* C10: every PUT goes to the document identifier, never None, of the first
\* destination document whose match field equals the entry's match value.
C10_PutAddressesDocument ==
    \A k \in DOMAIN log :
        (ThisRun(k) /\ log[k].method = "PUT")
        => LET hits == SelectSeq(dest,
                    LAMBDA d : d[matchField] = entries[log[k].idx].match_field)
           IN  /\ log[k].target # None
               /\ hits # <<>>
               /\ log[k].target = hits[1].documentId

====
